---- MODULE Spec2Model ----
(***************************************************************************)
(* Inventory record service (src/inventory_lambda.py): lambda_handler      *)
(* normalises a gateway-shaped or direct-shaped event, routes it by HTTP   *)
(* method and runs one of five handlers against a DynamoDB table keyed by  *)
(* product_id.                                                             *)
(*                                                                         *)
(* Python dicts are TLA+ functions over strings (a record is one); a key   *)
(* is "in" a dict when it is in its DOMAIN.  dict.get(k) is an option: the *)
(* empty tuple for None, <<v>> for a value.  Stocks and thresholds are     *)
(* integers, which Decimal(str(n)) and float(Decimal) keep; prices are     *)
(* decimals and pass through the float conversions of the code.            *)
(* datetime.now().isoformat() is the integer time of the request.          *)
(***************************************************************************)
EXTENDS Integers, Sequences, FiniteSets, TLC

VARIABLES
    table,         \* the DynamoDB table: product_id -> item (a dict)
    environ,       \* os.environ, set once at start-up
    clock,         \* wall clock: the number of requests handled so far
    event,         \* the event of the last invocation of lambda_handler
    response,      \* the envelope it returned
    table_before,  \* the table when that invocation started
    calls          \* the invocations in flight when they overlap, per worker

vars == <<table, environ, clock, event, response, table_before, calls>>

\* Number of invocations of lambda_handler in a run.
MaxRequests == 3

----------------------------------------------------------------------------
\* Python dict helpers

EmptyDict == <<>>

Has(d, k) == k \in DOMAIN d

\* d.get(k): <<>> is None
dict_get(d, k) == IF k \in DOMAIN d THEN <<d[k]>> ELSE <<>>

\* {**a, **b}: b wins on common keys
Merge(a, b) == b @@ a

\* d without key k
Without(d, k) == [x \in DOMAIN d \ {k} |-> d[x]]

\* truth value of an optional string: None and "" are falsy
Truthy(opt) == opt # <<>> /\ opt[1] # ""

----------------------------------------------------------------------------
\* Numbers with a fraction: prices
\*
\* A decimal notation, as a JSON number literal and as a Decimal, is
\* digits / 10^scale kept without trailing zeros; a Python int is a decimal
\* of scale 0.  A Python float is an IEEE double mant * 2^exp whose mantissa
\* has DoubleBits bits; mantissas exceed the integers of the checker and are
\* kept as sequences of limbs, least significant first.  Prices are at
\* least 1 and below 2^31.

Dec(n, k) == [digits |-> n, scale |-> k]

DoubleBits == 53

Base == 10000

RECURSIVE BigOfInt(_)
BigOfInt(n) == IF n = 0 THEN <<>> ELSE <<n % Base>> \o BigOfInt(n \div Base)

RECURSIVE BigToInt(_)
BigToInt(a) == IF a = <<>> THEN 0 ELSE Head(a) + Base * BigToInt(Tail(a))

\* a * k + carry, for k up to Base
RECURSIVE BigMul(_, _, _)
\* the limb of t and the carry of the rest
BigMulStep(rest, k, t) == <<t % Base>> \o BigMul(rest, k, t \div Base)

BigMul(a, k, carry) ==
    IF a = <<>> THEN (IF carry = 0 THEN <<>> ELSE <<carry>>)
    ELSE BigMulStep(Tail(a), k, Head(a) * k + carry)

\* quotient and remainder of a by k, for k up to Base
\* long division by k, one limb: q is the quotient of the higher limbs and t
\* their remainder with the limb appended
BigDivLimb(q, t, k) ==
    [q |-> IF q = <<>> /\ t \div k = 0 THEN <<>> ELSE <<t \div k>> \o q,
     r |-> t % k]

BigDivStep(hi, limb, k) == BigDivLimb(hi.q, hi.r * Base + limb, k)

RECURSIVE BigDiv(_, _)
BigDiv(a, k) ==
    IF a = <<>> THEN [q |-> <<>>, r |-> 0]
    ELSE BigDivStep(BigDiv(Tail(a), k), Head(a), k)

BigOdd(a) == a # <<>> /\ Head(a) % 2 = 1

\* d^t as a sequence of factors no larger than Base
RECURSIVE Factors(_, _)
Factors(d, t) ==
    IF t = 0 THEN <<>>
    ELSE IF d = 2 /\ t >= 12 THEN <<4096>> \o Factors(d, t - 12)
    ELSE IF d = 10 /\ t >= 4 THEN <<10000>> \o Factors(d, t - 4)
    ELSE <<d>> \o Factors(d, t - 1)

RECURSIVE BigTimes(_, _)
BigTimes(a, fs) ==
    IF fs = <<>> THEN a ELSE BigTimes(BigMul(a, Head(fs), 0), Tail(fs))

\* a * d^t
BigScale(a, d, t) == BigTimes(a, Factors(d, t))

\* a divided by each factor in turn: the quotient, the last remainder and
\* its divisor, and whether a remainder before it was not zero
RECURSIVE DivSteps(_, _, _, _, _)
DivStepsOn(step, fs, sticky) ==
    DivSteps(step.q, Tail(fs), step.r, Head(fs), sticky)

DivSteps(a, fs, last, by, sticky) ==
    IF fs = <<>> THEN [q |-> a, last |-> last, by |-> by, sticky |-> sticky]
    ELSE DivStepsOn(BigDiv(a, Head(fs)), fs, sticky \/ last # 0)

\* the quotient s.q rounded on what the division left: up when more than
\* half, or half and the quotient is odd
Rounded(s) ==
    IF \/ 2 * s.last > s.by
       \/ 2 * s.last = s.by /\ (s.sticky \/ BigOdd(s.q))
    THEN BigMul(s.q, 1, 1) ELSE s.q

\* a / d^t rounded to the nearest integer, ties to even (d is 2 or 10)
RoundDiv(a, d, t) == Rounded(DivSteps(a, Factors(d, t), 0, 2, FALSE))

RECURSIVE BitLength(_)
BitLength(n) == IF n = 0 THEN 0 ELSE 1 + BitLength(n \div 2)

RECURSIVE Pow10(_)
Pow10(k) == IF k = 0 THEN 1 ELSE 10 * Pow10(k - 1)

\* a decimal notation without trailing zeros in its fraction
RECURSIVE Canonical(_, _)
Canonical(n, k) ==
    IF k > 0 /\ n % 10 = 0 THEN Canonical(n \div 10, k - 1) ELSE Dec(n, k)

\* the binary float of the given mantissa width nearest to a decimal
\* a mantissa that rounding carried to 2^bits is 2^(bits-1), one exponent up
Normalised(mant, shift, bits) ==
    IF mant = BigScale(<<1>>, 2, bits)
    THEN [mant |-> BigScale(<<1>>, 2, bits - 1), exp |-> 1 - shift]
    ELSE [mant |-> mant, exp |-> 0 - shift]

\* the decimal times 2^shift, rounded
Shifted(dec, shift, bits) ==
    Normalised(RoundDiv(BigScale(BigOfInt(dec.digits), 2, shift), 10, dec.scale),
               shift, bits)

NearestFloat(dec, bits) ==
    Shifted(dec, bits - BitLength(dec.digits \div Pow10(dec.scale)), bits)

\* float(x) with a mantissa of 11 bits
float_HalfPrecision(dec) == NearestFloat(dec, 11)

\* float(x) for a decimal x: float(Decimal), and the float of a JSON literal
float(dec) == NearestFloat(dec, DoubleBits)

\* repr of a float: the shortest decimal that float() maps back to it,
\* searched by the number of digits of its fraction
RECURSIVE ReprFrom(_, _)
ReprTry(f, k, cand) == IF float(cand) = f THEN cand ELSE ReprFrom(f, k + 1)

ReprFrom(f, k) ==
    ReprTry(f, k, Canonical(BigToInt(RoundDiv(BigScale(f.mant, 10, k), 2, 0 - f.exp)), k))

float_repr(f) == ReprFrom(f, 0)

IsFloat(x) == DOMAIN x = {"mant", "exp"}

\* json.loads of a number literal: an int when it has no fraction, else a float
json_number(lit) == IF lit.scale = 0 THEN lit ELSE float(lit)

\* Decimal(str(value)) of a Python number
to_decimal(x) == IF IsFloat(x) THEN float_repr(x) ELSE x

\* DecimalEncoder.default and json.dumps: the text of float(Decimal).  A whole
\* number below 2^31 is a double exactly and its text is that number.
encode_decimal(dec) == IF dec.scale = 0 THEN dec ELSE float_repr(float(dec))

----------------------------------------------------------------------------
\* The item store (boto3 Table), as the handlers use it

TableName == "InventoryTable"

\* table.get_item(Key={'product_id': k}): the response has 'Item' iff k exists
get_item(tbl, k) ==
    IF k \in DOMAIN tbl THEN [Item |-> tbl[k]] ELSE EmptyDict

\* put_item keeping the item the key already has
put_item_KeepExisting(tbl, item) ==
    [k \in DOMAIN tbl \cup {item["product_id"]} |->
        IF k \in DOMAIN tbl THEN tbl[k] ELSE item]

\* table.put_item(Item=item): unconditional write, replaces any item of that key
put_item(tbl, item) ==
    [k \in DOMAIN tbl \cup {item["product_id"]} |->
        IF k = item["product_id"] THEN item ELSE tbl[k]]

\* table.delete_item(Key=..., ReturnValues='ALL_OLD')
delete_item(tbl, k) ==
    [table |-> Without(tbl, k),
     response |-> IF k \in DOMAIN tbl THEN [Attributes |-> tbl[k]] ELSE EmptyDict]

\* One clause of a SET update expression: attr = :val, or attr = attr + :val
SetTo(attr, val) == [attr |-> attr, op |-> "set", val |-> val]
SetAdd(attr, val) == [attr |-> attr, op |-> "add", val |-> val]

\* A SET clause reads the item as it was before the update; attr + :val needs
\* the attribute to exist (DynamoDB answers ValidationException otherwise).
ClauseOk(item, c) == c.op = "set" \/ c.attr \in DOMAIN item

ClauseValue(item, c) == IF c.op = "add" THEN item[c.attr] + c.val ELSE c.val

\* update_item as a full overwrite: the item keeps only its key and the
\* attributes the expression sets
update_item_Overwrite(tbl, key, clauses) ==
    IF key = <<>> THEN [ok |-> FALSE, table |-> tbl]
    ELSE
      LET k    == key[1]
          item == IF k \in DOMAIN tbl THEN tbl[k] ELSE [product_id |-> k]
          idx  == 1..Len(clauses)
          set  == {clauses[i].attr : i \in idx}
          last(a) == CHOOSE i \in idx : clauses[i].attr = a
          new  == [a \in {"product_id"} \cup set |->
                     IF a \in set THEN ClauseValue(item, clauses[last(a)])
                     ELSE item[a]]
      IN IF \A i \in idx : ClauseOk(item, clauses[i])
         THEN [ok |-> TRUE, table |-> put_item(tbl, new)]
         ELSE [ok |-> FALSE, table |-> tbl]

\* table.update_item(Key={'product_id': key}, UpdateExpression="SET ..."):
\* key is an option (None is no valid key).  An absent item is created
\* (upsert) from the key alone.  ok = FALSE stands for the raised ClientError.
update_item(tbl, key, clauses) ==
    IF key = <<>> THEN [ok |-> FALSE, table |-> tbl]
    ELSE
      LET k    == key[1]
          item == IF k \in DOMAIN tbl THEN tbl[k] ELSE [product_id |-> k]
          idx  == 1..Len(clauses)
          set  == {clauses[i].attr : i \in idx}
          last(a) == CHOOSE i \in idx : clauses[i].attr = a
          new  == [a \in DOMAIN item \cup set |->
                     IF a \in set THEN ClauseValue(item, clauses[last(a)])
                     ELSE item[a]]
      IN IF \A i \in idx : ClauseOk(item, clauses[i])
         THEN [ok |-> TRUE, table |-> put_item(tbl, new)]
         ELSE [ok |-> FALSE, table |-> tbl]

----------------------------------------------------------------------------
\* Response builder

Headers == [ContentType |-> "application/json", AccessControlAllowOrigin |-> "*"]

\* json.dumps(item, cls=DecimalEncoder): a Decimal price is written as the
\* text of its float
encode_item(item) ==
    IF "price" \in DOMAIN item
    THEN [item EXCEPT !["price"] = encode_decimal(@)] ELSE item

\* json.dumps(body, cls=DecimalEncoder) of a response body: the items it
\* holds are under item, deleted_item (None when absent), updated_item, items
encode_body(body) ==
    [k \in DOMAIN body |->
        IF k \in {"item", "updated_item"} THEN encode_item(body[k])
        ELSE IF k = "deleted_item"
             THEN (IF body[k] = <<>> THEN <<>> ELSE <<encode_item(body[k][1])>>)
        ELSE IF k = "items"
             THEN [i \in DOMAIN body[k] |-> encode_item(body[k][i])]
        ELSE body[k]]

create_response(status_code, body) ==
    [statusCode |-> status_code, headers |-> Headers, body |-> encode_body(body)]

\* What a handler hands back: the envelope and the table it leaves
Result(resp, tbl) == [response |-> resp, table |-> tbl]

----------------------------------------------------------------------------
\* Handlers

required_fields == {"product_id", "name", "price", "stock_quantity"}

\* item[key] = Decimal(str(value)) for the numbers of an item
to_decimals(item) ==
    IF "price" \in DOMAIN item
    THEN [item EXCEPT !["price"] = to_decimal(@)] ELSE item

\* add_inventory_item without the existence check before the write
add_inventory_item_NoExistenceCheck(tbl, item, now) ==
    LET stamped == Merge(to_decimals(item), [created_at |-> now, updated_at |-> now]) IN
    IF required_fields \subseteq DOMAIN item
    THEN Result(create_response(201, [message |-> "Inventory item added successfully",
                                      item |-> stamped]),
                put_item(tbl, stamped))
    ELSE Result(create_response(400, [error |-> "Missing required fields"]), tbl)

\* add_inventory_item(table, item); now is datetime.now()
add_inventory_item(tbl, item, now) ==
    IF item = EmptyDict
    THEN Result(create_response(400, [error |-> "Missing item data for adding inventory item"]), tbl)
    ELSE
      LET missing_fields == {f \in required_fields : f \notin DOMAIN item} IN
      IF missing_fields # {}
      THEN Result(create_response(400, [error |-> "Missing required fields",
                                        fields |-> missing_fields]), tbl)
      ELSE
        LET stamped == Merge(to_decimals(item), [created_at |-> now, updated_at |-> now]) IN
        IF Has(get_item(tbl, stamped["product_id"]), "Item")
        THEN Result(create_response(409, [error |-> "Item already exists",
                                          product_id |-> stamped["product_id"]]), tbl)
        ELSE Result(create_response(201, [message |-> "Inventory item added successfully",
                                          item |-> stamped]),
                    put_item(tbl, stamped))

\* The non-quantity fields update_stock_quantity patches, in its loop's order
patch_fields == <<"name", "category", "price", "description">>

\* params[field] not in [None, '']: prices are numbers, the others strings
FieldSupplied(params, f) ==
    /\ f \in DOMAIN params
    /\ (f = "price" \/ params[f] # "")

\* the stock branch with stock_change written as the new stock
StockClauses_SetsDelta(params) ==
    LET stock_change == dict_get(params, "stock_change")
        new_quantity == dict_get(params, "new_quantity")
    IN IF stock_change # <<>> THEN <<SetTo("stock_quantity", stock_change[1])>>
       ELSE IF new_quantity # <<>> THEN <<SetTo("stock_quantity", new_quantity[1])>>
       ELSE <<>>

\* update_expression after the stock branch of update_stock_quantity
StockClauses(params) ==
    LET stock_change == dict_get(params, "stock_change")
        new_quantity == dict_get(params, "new_quantity")
    IN IF stock_change # <<>> THEN <<SetAdd("stock_quantity", stock_change[1])>>
       ELSE IF new_quantity # <<>> THEN <<SetTo("stock_quantity", new_quantity[1])>>
       ELSE <<>>

\* what the loop over the other fields appends to update_expression
RECURSIVE FieldClauses(_, _)
FieldClauses(params, i) ==
    IF i > Len(patch_fields) THEN <<>>
    ELSE (IF FieldSupplied(params, patch_fields[i])
          THEN <<SetTo(patch_fields[i],
                       IF patch_fields[i] = "price" THEN to_decimal(params["price"])
                       ELSE params[patch_fields[i]])>>
          ELSE <<>>) \o FieldClauses(params, i + 1)

\* update_stock_quantity without the updated_at clause
update_stock_quantity_Unstamped(tbl, params, now) ==
    LET product_id        == dict_get(params, "product_id")
        update_expression == StockClauses(params) \o FieldClauses(params, 1)
    IN IF update_expression = <<>>
       THEN Result(create_response(400, [error |-> "No fields to update"]), tbl)
       ELSE
         LET done == update_item(tbl, product_id, update_expression)
         IN IF done.ok
            THEN Result(create_response(200, [message |-> "Item updated successfully"]),
                        done.table)
            ELSE Result(create_response(500, [error |-> "update_item failed"]), tbl)

\* update_stock_quantity(table, params)
update_stock_quantity(tbl, params, now) ==
    LET product_id        == dict_get(params, "product_id")
        update_expression == StockClauses(params) \o FieldClauses(params, 1)
    IN IF update_expression = <<>>
       THEN Result(create_response(400, [error |-> "No fields to update"]), tbl)
       ELSE
         LET done == update_item(tbl, product_id,
                                 Append(update_expression, SetTo("updated_at", now)))
         IN IF done.ok
            THEN Result(create_response(200, [message |-> "Item updated successfully"]),
                        done.table)
            ELSE Result(create_response(500, [error |-> "update_item failed"]), tbl)

\* update_stock_quantity(table, params) of the packaged build
\* (.aws-sam/build/InventoryManagementFunction): it reads the item, computes
\* the new stock, refuses a negative one, writes stock_quantity and
\* updated_at, and warns at or below a non-zero reorder threshold.
build_update_stock_quantity(tbl, params, now) ==
    LET product_id   == dict_get(params, "product_id")
        stock_change == dict_get(params, "stock_change")
        new_quantity == dict_get(params, "new_quantity")
    IN IF ~Truthy(product_id)
       THEN Result(create_response(400, [error |-> "Missing product_id for stock update"]), tbl)
       ELSE IF stock_change = <<>> /\ new_quantity = <<>>
       THEN Result(create_response(400, [error |-> "Missing stock_change or new_quantity for stock update"]), tbl)
       ELSE
         LET got == get_item(tbl, product_id[1]) IN
         IF ~Has(got, "Item")
         THEN Result(create_response(404, [error |-> "Item not found",
                                           product_id |-> product_id[1]]), tbl)
         ELSE
           LET item          == got["Item"]
               current_stock == IF Has(item, "stock_quantity") THEN item["stock_quantity"] ELSE 0
               change        == IF stock_change = <<>> THEN new_quantity[1] - current_stock
                                ELSE stock_change[1]
               new_stock     == current_stock + change
               threshold     == IF Has(item, "reorder_threshold") THEN item["reorder_threshold"] ELSE 0
               done          == update_item(tbl, product_id,
                                            <<SetTo("stock_quantity", new_stock),
                                              SetTo("updated_at", now)>>)
               result        == [message |-> "Stock quantity updated successfully",
                                 product_id |-> product_id[1],
                                 previous_stock |-> current_stock,
                                 stock_change |-> change,
                                 new_stock |-> new_stock,
                                 updated_item |-> done.table[product_id[1]]]
           IN IF new_stock < 0
              THEN Result(create_response(400, [error |-> "Cannot reduce stock below zero",
                                                current_stock |-> current_stock,
                                                requested_change |-> change]), tbl)
              ELSE Result(create_response(200,
                            IF threshold # 0 /\ new_stock <= threshold
                            THEN Merge(result, [warning |-> "WARNING: Stock level is at or below reorder threshold"])
                            ELSE result),
                          done.table)

\* get_inventory_item taking the item out of the table as it reads it
get_inventory_item_Consuming(tbl, params) ==
    LET product_id == dict_get(params, "product_id") IN
    IF ~Truthy(product_id)
    THEN Result(create_response(400, [error |-> "Missing product_id for getting inventory item"]), tbl)
    ELSE
      LET got == get_item(tbl, product_id[1]) IN
      IF ~Has(got, "Item")
      THEN Result(create_response(404, [error |-> "Item not found",
                                        product_id |-> product_id[1]]), tbl)
      ELSE Result(create_response(200, [item |-> got["Item"]]),
                  Without(tbl, product_id[1]))

\* get_inventory_item(table, params)
get_inventory_item(tbl, params) ==
    LET product_id == dict_get(params, "product_id") IN
    IF ~Truthy(product_id)
    THEN Result(create_response(400, [error |-> "Missing product_id for getting inventory item"]), tbl)
    ELSE
      LET got == get_item(tbl, product_id[1]) IN
      IF ~Has(got, "Item")
      THEN Result(create_response(404, [error |-> "Item not found",
                                        product_id |-> product_id[1]]), tbl)
      ELSE Result(create_response(200, [item |-> got["Item"]]), tbl)

\* table.scan(FilterExpression, Limit): the store reads at most Limit items in
\* its own order (order: a sequence of the table's keys), then filters; it
\* reports LastEvaluatedKey when it stopped at the limit.
scan(tbl, order, category, limit) ==
    LET n     == IF limit # <<>> /\ limit[1] < Len(order) THEN limit[1] ELSE Len(order)
        read  == SubSeq(order, 1, n)
        keep(k) == category = <<>> \/
                   ("category" \in DOMAIN tbl[k] /\ tbl[k]["category"] = category[1])
        items == SelectSeq(read, keep)
    IN [Items |-> [i \in 1..Len(items) |-> tbl[items[i]]],
        ScannedCount |-> n]
       @@ (IF limit # <<>> /\ n > 0 /\ limit[1] <= Len(order)
           THEN [LastEvaluatedKey |-> [product_id |-> order[n]]]
           ELSE EmptyDict)

\* Limit as list_inventory_items passes it: int(max_items) of a truthy
\* max_items, else none
ScanLimit(params) ==
    LET max_items == dict_get(params, "max_items") IN
    IF max_items # <<>> /\ max_items[1] # 0 THEN max_items ELSE <<>>

\* list_inventory_items(table, params).  The store accepts a Limit of 1 or
\* more; for a smaller one table.scan raises, and an exception that is not a
\* ClientError (botocore's parameter validation) passes to lambda_handler's
\* except clause, which answers 500 as the handler's own clause does.
list_inventory_items(tbl, params, order) ==
    LET category  == dict_get(params, "category")
        limit     == ScanLimit(params)
        scanned   == scan(tbl, order,
                          IF Truthy(category) THEN category ELSE <<>>, limit)
        result    == [items |-> scanned["Items"],
                      count |-> Len(scanned["Items"]),
                      scanned_count |-> scanned["ScannedCount"]]
    IN IF limit # <<>> /\ limit[1] < 1
       THEN Result(create_response(500, [error |-> "Parameter validation failed"]), tbl)
       ELSE Result(create_response(200,
                IF Has(scanned, "LastEvaluatedKey")
                THEN Merge(result, [last_evaluated_key |-> scanned["LastEvaluatedKey"],
                                    has_more |-> TRUE])
                ELSE result), tbl)

\* remove_inventory_item(table, params)
remove_inventory_item(tbl, params) ==
    LET product_id == dict_get(params, "product_id") IN
    IF ~Truthy(product_id)
    THEN Result(create_response(400, [error |-> "Missing product_id for removing inventory item"]), tbl)
    ELSE
      IF ~Has(get_item(tbl, product_id[1]), "Item")
      THEN Result(create_response(404, [error |-> "Item not found",
                                        product_id |-> product_id[1]]), tbl)
      ELSE
        LET deleted == delete_item(tbl, product_id[1]) IN
        Result(create_response(200, [message |-> "Inventory item removed successfully",
                                     deleted_item |-> dict_get(deleted.response, "Attributes")]),
               deleted.table)

----------------------------------------------------------------------------
\* Request normaliser and router

\* Values of an event's optional sections: JSON null, the empty string, and a
\* string holding the JSON text of a dict
NoneValue == [none |-> TRUE]
EmptyString == [empty |-> TRUE]

json_dumps(d) == [json |-> d]
IsJsonText(s) == DOMAIN s = {"json"}
\* json.loads: number literals become Python numbers
json_loads(s) ==
    LET d == s["json"] IN
    IF "price" \in DOMAIN d THEN [d EXCEPT !["price"] = json_number(@)] ELSE d

\* "x or {}" for a section that is absent, None, empty or a dict
OrEmpty(ev, k) ==
    IF k \notin DOMAIN ev \/ ev[k] = NoneValue \/ ev[k] = EmptyString
    THEN EmptyDict ELSE ev[k]

\* resource_path.strip('/').split('/') is kept as the sequence of segments
PathParts(ev) == IF "path" \in DOMAIN ev THEN ev["path"] ELSE <<"">>

\* product_id of a gateway event: from pathParameters when there are any, else
\* the last segment of a path of more than one segment
GatewayProductId(ev) ==
    LET path_parameters == OrEmpty(ev, "pathParameters")
        parts           == PathParts(ev)
    IN IF path_parameters # EmptyDict THEN dict_get(path_parameters, "product_id")
       ELSE IF Len(parts) > 1 THEN <<parts[Len(parts)]>>
       ELSE <<>>

\* body of a gateway event: parsed when present and non-empty, else {}
GatewayBody(ev) ==
    IF "body" \in DOMAIN ev /\ ev["body"] # NoneValue /\ ev["body"] # EmptyString
    THEN json_loads(ev["body"]) ELSE EmptyDict

\* table name of a gateway event: the body's, else os.environ's; None is <<>>
GatewayTableName(ev, env) ==
    LET named == dict_get(GatewayBody(ev), "table_name") IN
    IF Truthy(named) THEN named ELSE dict_get(env, "INVENTORY_TABLE")

\* params of a gateway event
GatewayParams(ev, env) ==
    LET product_id == GatewayProductId(ev)
        params     == Merge([table_name |-> GatewayTableName(ev, env)[1]], GatewayBody(ev))
    IN IF Truthy(product_id) THEN Merge(params, [product_id |-> product_id[1]])
       ELSE params

IsGateway(ev) == "httpMethod" \in DOMAIN ev

HttpMethod(ev) ==
    IF IsGateway(ev) THEN ev["httpMethod"]
    ELSE IF "http_method" \in DOMAIN ev THEN ev["http_method"] ELSE "GET"

\* the product_id the router tests, and the table name, for either shape
RouteProductId(ev) ==
    IF IsGateway(ev) THEN GatewayProductId(ev) ELSE dict_get(ev, "product_id")

ResolvedTableName(ev, env) ==
    IF IsGateway(ev) THEN GatewayTableName(ev, env) ELSE dict_get(ev, "table_name")

Params(ev, env) == IF IsGateway(ev) THEN GatewayParams(ev, env) ELSE ev

\* the POST branch: item = json.loads(event['body']); a missing key, None or
\* the empty string raises, and the outer except answers 500
PostItem(ev, tbl, now) ==
    IF "body" \notin DOMAIN ev \/ ~IsJsonText(ev["body"])
    THEN Result(create_response(500, [error |-> "cannot load event body"]), tbl)
    ELSE add_inventory_item(tbl, json_loads(ev["body"]), now)

\* the router with the method tested before the table name
Route_MethodFirst(ev, env) ==
    LET http_method == HttpMethod(ev) IN
    IF http_method = "OPTIONS" THEN "options"
    ELSE IF http_method \notin {"GET", "POST", "PUT", "DELETE"} THEN "not_allowed"
    ELSE IF ~Truthy(ResolvedTableName(ev, env)) THEN "no_table"
    ELSE IF http_method = "GET"
         THEN (IF Truthy(RouteProductId(ev)) THEN "get" ELSE "list")
    ELSE IF http_method = "POST" THEN "add"
    ELSE IF http_method = "PUT" THEN "update"
    ELSE "remove"

\* The name of the branch the router takes
Route(ev, env) ==
    LET http_method == HttpMethod(ev) IN
    IF ~Truthy(ResolvedTableName(ev, env)) THEN "no_table"
    ELSE IF http_method = "GET"
         THEN (IF Truthy(RouteProductId(ev)) THEN "get" ELSE "list")
    ELSE IF http_method = "POST" THEN "add"
    ELSE IF http_method = "PUT" THEN "update"
    ELSE IF http_method = "DELETE" THEN "remove"
    ELSE IF http_method = "OPTIONS" THEN "options"
    ELSE "not_allowed"

\* lambda_handler(event, context): env is os.environ, now the time of the
\* request, order the order in which the store would scan its keys
lambda_handler(ev, tbl, env, now, order) ==
    LET branch == Route(ev, env)
        params == Params(ev, env)
    IN CASE branch = "no_table" ->
              Result(create_response(400, [error |-> "Missing table_name parameter"]), tbl)
         [] branch = "get"     -> get_inventory_item(tbl, params)
         [] branch = "list"    -> list_inventory_items(tbl, params, order)
         [] branch = "add"     -> PostItem(ev, tbl, now)
         [] branch = "update"  -> update_stock_quantity(tbl, params, now)
         [] branch = "remove"  -> remove_inventory_item(tbl, params)
         [] branch = "options" ->
              Result(create_response(200, [message |-> "CORS preflight request handled successfully"]), tbl)
         [] OTHER ->
              Result(create_response(405, [error |-> "Method not allowed"]), tbl)

----------------------------------------------------------------------------
\* The requests of the model

Keys == {"apple", "pear"}

\* item records a client adds
NewItems ==
    { Merge([product_id |-> k, name |-> "Apple", price |-> Dec(3, 0),
             stock_quantity |-> s, category |-> "Fruit"], t) :
        k \in Keys, s \in {2},
        t \in {EmptyDict, [reorder_threshold |-> 0], [reorder_threshold |-> 2]} }

\* the quantity part of an update payload: a delta, a target, or neither
Quantities ==
    {EmptyDict}
    \cup {[stock_change |-> d] : d \in {-3, 1}}
    \cup {[new_quantity |-> q] : q \in {-1, 0, 1}}

\* the non-quantity part of an update payload
Patches ==
    { EmptyDict,
      [name |-> "Granny"],
      [name |-> "Granny", price |-> Dec(4, 0), category |-> "", description |-> "crisp"] }

UpdatePayloads == { Merge(q, p) : q \in Quantities, p \in Patches }

\* payloads of list requests
ListPayloads ==
    { EmptyDict, [category |-> "Fruit"], [max_items |-> 1], [max_items |-> -1] }

\* a gateway event, as the API gateway and the repository's test build it
GatewayEvent(method, parts, body) ==
    Merge([httpMethod |-> method, path |-> parts,
           pathParameters |-> NoneValue, queryStringParameters |-> NoneValue],
          IF body = EmptyDict THEN EmptyDict ELSE [body |-> json_dumps(body)])

ItemPaths == { <<"inventory", k>> : k \in Keys }

\* the update payloads as they arrive: with the key in the path, with the key
\* in the body next to the table name (the administrative UI's form, which
\* sends every field), or with no key at all
FullPatch == [name |-> "Granny", price |-> Dec(4, 0), category |-> "", description |-> "crisp"]

PathUpdates ==
    { [parts |-> pt, body |-> b] : pt \in ItemPaths, b \in UpdatePayloads }

AddressedUpdates ==
    PathUpdates
    \cup { [parts |-> <<"inventory">>,
            body |-> Merge(Merge(q, FullPatch),
                           [product_id |-> k, table_name |-> TableName])] :
             k \in Keys, q \in Quantities }
    \cup { [parts |-> <<"inventory">>, body |-> q] : q \in Quantities }

\* item records that lack one of the required fields
PartialItems ==
    { Without([product_id |-> "apple", name |-> "Apple", price |-> Dec(3, 0),
               stock_quantity |-> 2], f) :
        f \in {"product_id", "name", "price", "stock_quantity"} }

\* the optional sections of a gateway event: all absent, all null, all empty,
\* and a body holding the JSON text of an empty dict
Sections ==
    { EmptyDict,
      [pathParameters |-> NoneValue, queryStringParameters |-> NoneValue,
       body |-> NoneValue],
      [pathParameters |-> EmptyDict, queryStringParameters |-> EmptyDict,
       body |-> EmptyString],
      [pathParameters |-> EmptyDict, queryStringParameters |-> EmptyDict,
       body |-> json_dumps(EmptyDict)] }

SectionEvents ==
    { Merge([httpMethod |-> m, path |-> <<"inventory">>], s) :
        m \in {"GET", "POST", "PUT", "DELETE"}, s \in Sections }
    \cup { [httpMethod |-> m, path |-> <<"inventory", "apple">>] :
             m \in {"GET", "POST", "PUT", "DELETE"} }

GatewayEvents ==
    SectionEvents
    \cup { GatewayEvent("POST", <<"inventory">>, b) : b \in PartialItems }
    \cup { GatewayEvent(m, pt, EmptyDict) :
        m \in {"GET", "DELETE", "POST"}, pt \in ItemPaths \cup {<<"inventory">>} }
    \cup { GatewayEvent(m, pt, EmptyDict) :
             m \in {"OPTIONS", "HEAD"}, pt \in {<<"inventory">>, <<"inventory", "apple">>} }
    \cup { GatewayEvent("GET", <<"inventory">>, b) : b \in ListPayloads }
    \cup { GatewayEvent("POST", <<"inventory">>, b) : b \in NewItems }
    \cup { GatewayEvent("PUT", u.parts, u.body) : u \in AddressedUpdates }
    \cup { GatewayEvent("PATCH", pt, q) : pt \in ItemPaths, q \in Quantities }

\* a direct invocation: one flat record
DirectEvent(method, fields) ==
    Merge([http_method |-> method, table_name |-> TableName], fields)

DirectEvents ==
    { DirectEvent(m, id) :
        m \in {"GET", "DELETE"},
        id \in {EmptyDict} \cup {[product_id |-> k] : k \in Keys} }
    \cup { DirectEvent(m, EmptyDict) : m \in {"OPTIONS", "HEAD"} }
    \cup { DirectEvent("POST", b) : b \in NewItems }
    \cup { DirectEvent("PUT", Merge(q, [product_id |-> k])) :
             q \in Quantities, k \in Keys }
    \cup { DirectEvent("PATCH", [product_id |-> k, stock_change |-> 1]) : k \in Keys }
    \cup { [product_id |-> k] : k \in Keys }

Events == GatewayEvents \cup DirectEvents

\* the orders in which the store may scan its keys
ScanOrders(tbl) ==
    { o \in UNION { [1..n -> DOMAIN tbl] : n \in {Cardinality(DOMAIN tbl)} } :
        \A i, j \in DOMAIN o : i # j => o[i] # o[j] }

----------------------------------------------------------------------------
\* The state machine: one step is one invocation of lambda_handler

\* os.environ with and without INVENTORY_TABLE
Environs == { EmptyDict, [INVENTORY_TABLE |-> TableName] }

NoEvent == EmptyDict

\* Lambda runs overlapping invocations in separate workers
Procs == {1, 2}

NoCall ==
    [op |-> "none", key |-> "", params |-> EmptyDict, pc |-> "done", at |-> 0,
     base |-> <<>>, status |-> 0, body |-> EmptyDict, wrote |-> 0, wclock |-> 0]

Init ==
    /\ calls = [p \in Procs |-> NoCall]
    /\ table = EmptyDict
    /\ environ \in Environs
    /\ clock = 0
    /\ event = NoEvent
    /\ response = create_response(0, EmptyDict)
    /\ table_before = EmptyDict

NoResponse == create_response(0, EmptyDict)

\* Invocations are handled one after the other; event, response and
\* table_before describe the one that has just run, until its response is
\* delivered.
Idle == event = NoEvent /\ clock < MaxRequests

\* lambda_handler runs on ev at time clock + 1.
Invoke(ev, order) ==
    /\ \E done \in {lambda_handler(ev, table, environ, clock + 1, order)} :
         /\ table' = done.table
         /\ response' = done.response
    /\ event' = ev
    /\ table_before' = table
    /\ clock' = clock + 1
    /\ UNCHANGED <<environ, calls>>

EventsOf(methods) == { ev \in Events : HttpMethod(ev) \in methods }

GetEvents == EventsOf({"GET"})
PostEvents == EventsOf({"POST"})
PutEvents == EventsOf({"PUT"})
DeleteEvents == EventsOf({"DELETE"})
OptionsEvents == EventsOf({"OPTIONS"})
OtherEvents == Events \ EventsOf({"GET", "POST", "PUT", "DELETE", "OPTIONS"})

GetItem ==
    /\ Idle
    /\ \E ev \in GetEvents : Route(ev, environ) = "get" /\ Invoke(ev, <<>>)

ListItems ==
    /\ Idle
    /\ \E ev \in GetEvents : Route(ev, environ) = "list"
           /\ \E order \in ScanOrders(table) : Invoke(ev, order)

AddItem ==
    /\ Idle
    /\ \E ev \in PostEvents : Route(ev, environ) = "add" /\ Invoke(ev, <<>>)

UpdateStock ==
    /\ Idle
    /\ \E ev \in PutEvents : Route(ev, environ) = "update" /\ Invoke(ev, <<>>)

RemoveItem ==
    /\ Idle
    /\ \E ev \in DeleteEvents : Route(ev, environ) = "remove" /\ Invoke(ev, <<>>)

Options ==
    /\ Idle
    /\ \E ev \in OptionsEvents : Route(ev, environ) = "options" /\ Invoke(ev, <<>>)

MethodNotAllowed ==
    /\ Idle
    /\ \E ev \in OtherEvents : Route(ev, environ) = "not_allowed" /\ Invoke(ev, <<>>)

MissingTableName ==
    /\ Idle
    /\ \E ev \in Events : Route(ev, environ) = "no_table" /\ Invoke(ev, <<>>)

\* The response is delivered to the caller; nothing of the invocation is kept.
Return ==
    /\ event # NoEvent
    /\ event' = NoEvent
    /\ response' = NoResponse
    /\ table_before' = EmptyDict
    /\ UNCHANGED <<table, environ, clock, calls>>

Next ==
    \/ GetItem
    \/ ListItems
    \/ AddItem
    \/ UpdateStock
    \/ RemoveItem
    \/ Options
    \/ MethodNotAllowed
    \/ MissingTableName
    \/ Return

Spec == Init /\ [][Next]_vars

\* The packaged build's stock update, on the same table: its handler reaches
\* update_stock_quantity for direct invocations, params being the event.
BuildUpdateStock ==
    /\ Idle
    /\ \E ev \in PutEvents :
         /\ ~IsGateway(ev)
         /\ Route(ev, environ) = "update"
         /\ \E done \in {build_update_stock_quantity(table, ev, clock + 1)} :
              /\ table' = done.table
              /\ response' = done.response
         /\ event' = ev
         /\ table_before' = table
         /\ clock' = clock + 1
         /\ UNCHANGED <<environ, calls>>

BuildNext ==
    \/ AddItem
    \/ GetItem
    \/ RemoveItem
    \/ BuildUpdateStock
    \/ Return

BuildSpec == Init /\ [][BuildNext]_vars

\* Items with a fraction in the price, added through the gateway and read
\* back.  The prices: the spec's 19.99, a tie of the decimal rounding, a
\* price with five decimals and a whole one.
PriceLiterals == { Dec(1999, 2), Dec(2675, 3), Dec(123456789, 5), Dec(7, 0) }

PricedItems ==
    { [product_id |-> k, name |-> "Apple", price |-> p, stock_quantity |-> 10] :
        k \in Keys, p \in PriceLiterals }

PricedPosts == { GatewayEvent("POST", <<"inventory">>, b) : b \in PricedItems }

AddPriced ==
    /\ Idle
    /\ \E ev \in PricedPosts : Route(ev, environ) = "add" /\ Invoke(ev, <<>>)

PriceNext ==
    \/ AddPriced
    \/ GetItem
    \/ RemoveItem
    \/ Return

PriceSpec == Init /\ [][PriceNext]_vars

----------------------------------------------------------------------------
\* Gateway requests that address an item through their path parameters, their
\* path, their body, or several of these at once

\* pathParameters as the gateway sends them: null, empty, the product_id of
\* an item route, and the proxy of a catch-all route
PathParameters ==
    { NoneValue, EmptyDict,
      [product_id |-> "apple"], [product_id |-> "pear"],
      [proxy |-> "inventory/apple"] }

AddressedEvents ==
    { Merge([httpMethod |-> m, path |-> pt, pathParameters |-> pp,
             queryStringParameters |-> NoneValue],
            IF b = EmptyDict THEN EmptyDict ELSE [body |-> json_dumps(b)]) :
        m \in {"GET", "PUT", "DELETE"},
        pt \in {<<"inventory">>, <<"inventory", "apple">>},
        pp \in PathParameters,
        b \in {EmptyDict, [product_id |-> "pear", new_quantity |-> 1]} }

AddressedGet ==
    /\ Idle
    /\ \E ev \in AddressedEvents : Route(ev, environ) = "get" /\ Invoke(ev, <<>>)

AddressedList ==
    /\ Idle
    /\ \E ev \in AddressedEvents : Route(ev, environ) = "list"
           /\ \E order \in ScanOrders(table) : Invoke(ev, order)

AddressedUpdate ==
    /\ Idle
    /\ \E ev \in AddressedEvents : Route(ev, environ) = "update" /\ Invoke(ev, <<>>)

AddressedRemove ==
    /\ Idle
    /\ \E ev \in AddressedEvents : Route(ev, environ) = "remove" /\ Invoke(ev, <<>>)

PathNext ==
    \/ AddItem
    \/ AddressedGet
    \/ AddressedList
    \/ AddressedUpdate
    \/ AddressedRemove
    \/ Return

PathSpec == Init /\ [][PathNext]_vars

----------------------------------------------------------------------------
\* Overlapping invocations: each worker runs its handler one store call at a
\* time, and the store applies each call atomically.  The requests are
\* well-formed (they carry a table name and a product_id), so the handlers'
\* validation passes and their steps are their store calls.

\* the update payloads of overlapping requests
RaceUpdates ==
    {[stock_change |-> d] : d \in {-3, 1}} \cup {[new_quantity |-> q] : q \in {0, 1}}

RaceRequests ==
    { [op |-> "add", key |-> k,
       params |-> [product_id |-> k, name |-> "Apple", price |-> Dec(3, 0),
                   stock_quantity |-> 2]] : k \in Keys }
    \cup { [op |-> "update", key |-> k,
            params |-> Merge(u, [product_id |-> k, table_name |-> TableName])] :
              k \in Keys, u \in RaceUpdates }
    \cup { [op |-> "remove", key |-> k,
            params |-> [product_id |-> k, table_name |-> TableName]] : k \in Keys }

\* the number of the next write to the store, counted over the calls at hand
NextWrite(p) ==
    1 + (CHOOSE n \in 0..MaxRequests :
            /\ \A q \in Procs \ {p} : calls[q].wrote <= n
            /\ \E q \in Procs \ {p} : calls[q].wrote = n)

\* worker p is free: it has no call, or has returned the response of its call
Free(p) == calls[p].pc = "done"

\* lambda_handler starts on a request in worker p.  base is the item of the
\* key at that moment (for the properties), at the time of the request.
Begin(p) ==
    /\ Free(p)
    /\ clock < MaxRequests
    /\ \E r \in RaceRequests :
         calls' = [calls EXCEPT ![p] =
                     [op |-> r.op, key |-> r.key, params |-> r.params,
                      pc |-> "start", at |-> clock + 1,
                      base |-> dict_get(table, r.key),
                      status |-> 0, body |-> EmptyDict, wrote |-> 0, wclock |-> 0]]
    /\ clock' = clock + 1
    /\ UNCHANGED <<table, environ, event, response, table_before>>

\* worker p's call returns resp, having written (or not) to the store
Finish(p, resp, written) ==
    calls' = [calls EXCEPT ![p].pc = "done",
                           ![p].status = resp.statusCode,
                           ![p].body = resp.body,
                           ![p].wrote = IF written THEN NextWrite(p) ELSE 0,
                           ![p].wclock = clock]

Running(p, op, pc) ==
    calls[p].op = op /\ calls[p].pc = pc

\* add_inventory_item: response = table.get_item(...), 409 if 'Item' in it
AddCheck(p) ==
    /\ Running(p, "add", "start")
    /\ IF Has(get_item(table, calls[p].key), "Item")
       THEN Finish(p, create_response(409, [error |-> "Item already exists",
                                            product_id |-> calls[p].key]), FALSE)
       ELSE calls' = [calls EXCEPT ![p].pc = "checked"]
    /\ UNCHANGED <<table, environ, clock, event, response, table_before>>

\* add_inventory_item: table.put_item(Item=item), then 201
AddPut(p) ==
    /\ Running(p, "add", "checked")
    /\ LET stamped == Merge(to_decimals(calls[p].params),
                            [created_at |-> calls[p].at, updated_at |-> calls[p].at])
       IN /\ table' = put_item(table, stamped)
          /\ Finish(p, create_response(201, [message |-> "Inventory item added successfully",
                                             item |-> stamped]), TRUE)
    /\ UNCHANGED <<environ, clock, event, response, table_before>>

\* update_stock_quantity: its one store call, table.update_item(...)
UpdateWrite(p) ==
    /\ Running(p, "update", "start")
    /\ \E done \in {update_stock_quantity(table, calls[p].params, calls[p].at)} :
         /\ table' = done.table
         /\ Finish(p, done.response, done.response.statusCode = 200)
    /\ UNCHANGED <<environ, clock, event, response, table_before>>

\* remove_inventory_item: response = table.get_item(...), 404 if no 'Item'
RemoveCheck(p) ==
    /\ Running(p, "remove", "start")
    /\ IF ~Has(get_item(table, calls[p].key), "Item")
       THEN Finish(p, create_response(404, [error |-> "Item not found",
                                            product_id |-> calls[p].key]), FALSE)
       ELSE calls' = [calls EXCEPT ![p].pc = "checked"]
    /\ UNCHANGED <<table, environ, clock, event, response, table_before>>

\* remove_inventory_item: table.delete_item(..., ReturnValues='ALL_OLD'), 200
RemoveDelete(p) ==
    /\ Running(p, "remove", "checked")
    /\ LET deleted == delete_item(table, calls[p].key)
       IN /\ table' = deleted.table
          /\ Finish(p, create_response(200,
                          [message |-> "Inventory item removed successfully",
                           deleted_item |-> dict_get(deleted.response, "Attributes")]),
                    TRUE)
    /\ UNCHANGED <<environ, clock, event, response, table_before>>

RaceNext ==
    \E p \in Procs :
        \/ Begin(p)
        \/ AddCheck(p)
        \/ AddPut(p)
        \/ UpdateWrite(p)
        \/ RemoveCheck(p)
        \/ RemoveDelete(p)

RaceSpec == Init /\ [][RaceNext]_vars

----------------------------------------------------------------------------
\* Vocabulary of the properties: the invocation that has just run

Handled == event # NoEvent

Branch == Route(event, environ)

\* its normalised parameters and the key it addresses (an option)
Req == Params(event, environ)

Target == dict_get(Req, "product_id")

\* it is an update-stock request on a key that existed, with a stock
UpdatingExisting ==
    /\ Handled
    /\ Branch = "update"
    /\ Target # <<>>
    /\ Target[1] \in DOMAIN table_before
    /\ "stock_quantity" \in DOMAIN table_before[Target[1]]

HasQuantity == Has(Req, "stock_change") \/ Has(Req, "new_quantity")

\* stock before the request, and the delta the payload asks for
StockBefore == table_before[Target[1]]["stock_quantity"]

Delta ==
    IF Has(Req, "stock_change") THEN Req["stock_change"]
    ELSE Req["new_quantity"] - StockBefore

\* the non-quantity fields the payload carries with a non-empty value
SuppliedFields ==
    { f \in DOMAIN Req \cap {"name", "category", "price", "description"} :
        f # "price" => Req[f] # "" }

StatusCode == response.statusCode

----------------------------------------------------------------------------
\* C1: an update of an existing item with stock c >= 0 and effective delta d
\* is rejected with 400 and leaves the stock at c when c + d < 0, and returns
\* 200 and stores c + d when c + d >= 0.
C1_NegativeResultRejected ==
    (UpdatingExisting /\ HasQuantity /\ StockBefore >= 0) =>
        /\ Target[1] \in DOMAIN table
        /\ IF StockBefore + Delta < 0
           THEN StatusCode = 400 /\ table[Target[1]]["stock_quantity"] = StockBefore
           ELSE StatusCode = 200 /\ table[Target[1]]["stock_quantity"] = StockBefore + Delta

\* C2: every stored item's stock_quantity is >= 0 in every reachable state.
C2_StockNeverNegative ==
    \A k \in DOMAIN table :
        "stock_quantity" \in DOMAIN table[k] => table[k]["stock_quantity"] >= 0

\* C3: delta equivalence.  An update of an existing item with stock c by
\* new_quantity = q leaves the table, and returns the response, that the same
\* request with stock_change = q - c in place of new_quantity gives from the
\* same starting table.
C3_DeltaEquivalence ==
    (UpdatingExisting /\ Has(Req, "new_quantity") /\ ~Has(Req, "stock_change")) =>
        LET by_delta == update_stock_quantity(
                            table_before,
                            Merge(Without(Req, "new_quantity"),
                                  [stock_change |-> Req["new_quantity"] - StockBefore]),
                            clock)
        IN /\ table = by_delta.table
           /\ response = by_delta.response
           /\ table[Target[1]]["stock_quantity"] = Req["new_quantity"]

\* an update by new_quantity has changed the stock of an existing item
W3_TargetApplied ==
    /\ UpdatingExisting
    /\ Has(Req, "new_quantity") /\ ~Has(Req, "stock_change")
    /\ Req["new_quantity"] # StockBefore
    /\ Req["new_quantity"] > 0
    /\ StatusCode = 200
    /\ table[Target[1]]["stock_quantity"] = Req["new_quantity"]

\* The invocation is a gateway POST of a complete item record
AddingItem ==
    /\ Handled
    /\ Branch = "add"
    /\ IsGateway(event)
    /\ "body" \in DOMAIN event
    /\ IsJsonText(event["body"])
    /\ required_fields \subseteq DOMAIN json_loads(event["body"])

AddedItem == json_loads(event["body"])

\* C4: creation uniqueness.  An add of key k returns 201 and stores the item,
\* stamped with the time of the request, when k was absent; it returns 409
\* and leaves the table (the item of k with its created_at and updated_at
\* included) as it was when k existed.
C4_CreationUniqueness ==
    AddingItem =>
        LET k == AddedItem["product_id"] IN
        IF k \notin DOMAIN table_before
        THEN /\ StatusCode = 201
             /\ DOMAIN table = DOMAIN table_before \cup {k}
             /\ \A x \in DOMAIN table_before : table[x] = table_before[x]
             /\ \A a \in DOMAIN AddedItem : table[k][a] = AddedItem[a]
             /\ table[k]["created_at"] = clock
             /\ table[k]["updated_at"] = clock
        ELSE /\ StatusCode = 409
             /\ table = table_before

\* a second add of a key that an earlier add created is answered 409
W4_SecondAddConflicts ==
    /\ AddingItem
    /\ AddedItem["product_id"] \in DOMAIN table_before
    /\ StatusCode = 409
    /\ "created_at" \in DOMAIN table[AddedItem["product_id"]]
    /\ table[AddedItem["product_id"]]["created_at"] < clock

\* C5: a get, an update-stock or a delete addressed to a product_id that is
\* not in the table returns 404 and leaves the table unchanged.
C5_UnknownKeyNotFound ==
    (/\ Handled
     /\ Branch \in {"get", "update", "remove"}
     /\ Branch = "update" => HasQuantity
     /\ Target # <<>>
     /\ Target[1] \notin DOMAIN table_before) =>
        /\ StatusCode = 404
        /\ table = table_before

\* C6: a successful stock update of an item with reorder_threshold t >= 0 to
\* new stock n carries a warning exactly when n <= t.
C6_ThresholdWarning ==
    (/\ UpdatingExisting /\ HasQuantity
     /\ StatusCode = 200
     /\ "reorder_threshold" \in DOMAIN table_before[Target[1]]
     /\ table_before[Target[1]]["reorder_threshold"] >= 0) =>
        ("warning" \in DOMAIN response.body
            <=> table[Target[1]]["stock_quantity"]
                    <= table_before[Target[1]]["reorder_threshold"])

\* C7: an update that carries non-quantity fields together with a quantity
\* that would make the stock negative is rejected with 400 and writes nothing.
C7_ExtendedModeRejectsNegative ==
    (/\ UpdatingExisting /\ HasQuantity
     /\ StockBefore >= 0
     /\ SuppliedFields # {}
     /\ StockBefore + Delta < 0) =>
        /\ StatusCode = 400
        /\ table = table_before

\* C8: a PUT of new_quantity q >= 0 with non-empty name/category/price/description
\* on an existing item returns 200, sets stock_quantity to q and each supplied
\* field to its value, and leaves every other attribute of the item except
\* updated_at, and every other item, unchanged.
C8_PatchFrame ==
    (/\ Handled /\ Branch = "update"
     /\ Target # <<>> /\ Target[1] \in DOMAIN table_before
     /\ Has(Req, "new_quantity") /\ ~Has(Req, "stock_change")
     /\ Req["new_quantity"] >= 0
     /\ SuppliedFields # {}) =>
        LET k       == Target[1]
            written == SuppliedFields \cup {"stock_quantity", "updated_at"}
        IN /\ StatusCode = 200
           /\ DOMAIN table = DOMAIN table_before
           /\ \A x \in DOMAIN table \ {k} : table[x] = table_before[x]
           /\ DOMAIN table[k] = DOMAIN table_before[k] \cup written
           /\ table[k]["stock_quantity"] = Req["new_quantity"]
           /\ \A f \in SuppliedFields : table[k][f] = Req[f]
           /\ \A a \in DOMAIN table_before[k] \ written :
                  table[k][a] = table_before[k][a]

\* a patch with an empty category was applied to an item that has one
W8_PatchApplied ==
    /\ Handled /\ Branch = "update"
    /\ Target # <<>> /\ Target[1] \in DOMAIN table_before
    /\ Has(Req, "new_quantity") /\ Req["new_quantity"] >= 0
    /\ SuppliedFields = {"name", "price", "description"}
    /\ Has(Req, "category")
    /\ "category" \in DOMAIN table_before[Target[1]]
    /\ "reorder_threshold" \in DOMAIN table_before[Target[1]]
    /\ DOMAIN table_before # {Target[1]}
    /\ StatusCode = 200
    /\ table[Target[1]]["name"] = "Granny"

\* the event with its method replaced
WithMethod(ev, m) ==
    IF IsGateway(ev) THEN [ev EXCEPT !["httpMethod"] = m]
    ELSE [ev EXCEPT !["http_method"] = m]

\* C9: a PATCH request has the effect on the table and the response of the
\* same request sent with PUT.
C9_PatchAsPut ==
    (Handled /\ HttpMethod(event) = "PATCH") =>
        LET as_put == lambda_handler(WithMethod(event, "PUT"), table_before,
                                     environ, clock, <<>>)
        IN /\ response = as_put.response
           /\ table = as_put.table

\* C10: a direct invocation with http_method = POST and the required item
\* fields at the top level creates the item and returns 201 when the key is
\* absent.
C10_DirectPostCreates ==
    (/\ Handled
     /\ ~IsGateway(event)
     /\ HttpMethod(event) = "POST"
     /\ Has(event, "table_name")
     /\ required_fields \subseteq DOMAIN event
     /\ event["product_id"] \notin DOMAIN table_before) =>
        /\ StatusCode = 201
        /\ event["product_id"] \in DOMAIN table

----------------------------------------------------------------------------
\* C11: an update-stock request whose payload has neither stock_change nor
\* new_quantity is answered 400 and writes nothing, whether or not it carries
\* non-quantity fields.  Stated for the requests that name a stored item.
C11_MissingQuantityRejected ==
    (UpdatingExisting /\ ~HasQuantity)
        => (StatusCode = 400 /\ table = table_before)

\* the request lacks a field its operation requires: an add whose body is an
\* item record without one of the required fields, an update or a delete that
\* names no product_id
LacksRequiredField ==
    \/ /\ Branch = "add"
       /\ Has(event, "body")
       /\ IsJsonText(event["body"])
       /\ ~(required_fields \subseteq DOMAIN json_loads(event["body"]))
    \/ /\ Branch \in {"update", "remove"}
       /\ Target = <<>>

\* C12: an add that misses one of product_id, name, price, stock_quantity and
\* an update-stock or delete without a product_id are answered 400, never 500,
\* and write nothing.
C12_RequiredFieldsValidated ==
    (Handled /\ LacksRequiredField)
        => (StatusCode = 400 /\ table = table_before)

\* a delete of a stored key is answered 200 with the record stored before it,
\* and removes that key and nothing else
DeleteReturnsRecord ==
    (Handled /\ Branch = "remove" /\ Target # <<>>
       /\ Target[1] \in DOMAIN table_before) =>
        /\ StatusCode = 200
        /\ response.body["deleted_item"] = <<table_before[Target[1]]>>
        /\ table = Without(table_before, Target[1])

\* a get or a delete of a key that is not stored is answered 404
AbsentKeyNotFound ==
    (Handled /\ Branch \in {"get", "remove"} /\ Target # <<>>
       /\ Target[1] \notin DOMAIN table_before) =>
        (StatusCode = 404 /\ table = table_before)

\* a key that is not stored stays so until an add for it succeeds
AbsentUntilAdded ==
    \A k \in DOMAIN table \ DOMAIN table_before :
        /\ Branch = "add"
        /\ StatusCode = 201
        /\ AddedItem["product_id"] = k

\* C13: a delete of an existing key returns 200 with the record stored
\* immediately before it; afterwards the key is absent, a get and a second
\* delete return 404, until an add for that key succeeds.
C13_DeletionIsTerminal ==
    /\ DeleteReturnsRecord
    /\ AbsentKeyNotFound
    /\ AbsentUntilAdded

\* the key a successful add or update has written
WrittenKey ==
    IF Branch = "add" THEN AddedItem["product_id"] ELSE Target[1]

\* created_at of a key in a table, as an option
CreatedAt(tbl, k) ==
    IF k \in DOMAIN tbl THEN dict_get(tbl[k], "created_at") ELSE <<>>

\* C14: every successful add and every successful update sets the item's
\* updated_at to the time of that request; created_at is written only by the
\* add that creates the item and is kept by every update; a rejected request
\* changes neither.
C14_Timestamps ==
    Handled =>
        /\ (Branch \in {"add", "update"} /\ StatusCode \in {200, 201}) =>
              /\ WrittenKey \in DOMAIN table
              /\ dict_get(table[WrittenKey], "updated_at") = <<clock>>
        /\ \A k \in DOMAIN table :
              CreatedAt(table, k) # CreatedAt(table_before, k) =>
                  /\ Branch = "add"
                  /\ StatusCode = 201
                  /\ k = AddedItem["product_id"]
                  /\ k \notin DOMAIN table_before
                  /\ CreatedAt(table, k) = <<clock>>
        /\ StatusCode \notin {200, 201} => table = table_before

\* an item added by the first request is updated by the second and the third
W14_UpdatedTwice ==
    /\ UpdatingExisting
    /\ StatusCode = 200
    /\ StockBefore >= 0
    /\ table[Target[1]]["stock_quantity"] >= 0
    /\ CreatedAt(table, Target[1]) = <<1>>
    /\ table_before[Target[1]]["updated_at"] = 2
    /\ table[Target[1]]["updated_at"] = 3

\* the table_name the request itself carries: in the body of a gateway event,
\* at the top level of a direct invocation
OwnTableName ==
    IF IsGateway(event) THEN dict_get(GatewayBody(event), "table_name")
    ELSE dict_get(event, "table_name")

\* the request's own table name when it has one, else the configured default
ExpectedTableName ==
    IF Truthy(OwnTableName) THEN OwnTableName
    ELSE dict_get(environ, "INVENTORY_TABLE")

\* C15: in both request shapes the table is the request's own table_name when
\* present and otherwise the configured default; only when neither exists is
\* the request answered 400, without any store operation.
C15_TableNameResolution ==
    Handled =>
        IF ExpectedTableName = <<>>
        THEN /\ Branch = "no_table"
             /\ StatusCode = 400
             /\ table = table_before
        ELSE /\ Branch # "no_table"
             /\ ResolvedTableName(event, environ) = ExpectedTableName

\* the status codes of the response envelope
StatusCodes == {200, 201, 400, 404, 405, 409, 500}

\* C16: for every request of either shape lambda_handler returns a response
\* envelope (statusCode, headers, body) whose statusCode is one of 200, 201,
\* 400, 404, 405, 409, 500, and 201 is returned only by an add that stored a
\* new item.
C16_ResponseEnvelope ==
    Handled =>
        /\ DOMAIN response = {"statusCode", "headers", "body"}
        /\ response.headers = [ContentType |-> "application/json",
                               AccessControlAllowOrigin |-> "*"]
        /\ StatusCode \in StatusCodes
        /\ StatusCode = 201 =>
              /\ Branch = "add"
              /\ AddedItem["product_id"] \notin DOMAIN table_before
              /\ AddedItem["product_id"] \in DOMAIN table
              /\ response.body["item"] = table[AddedItem["product_id"]]

\* an add has stored a new item and is answered 201
W16_CreatedAnswered ==
    /\ Handled
    /\ StatusCode = 201
    /\ DOMAIN table_before # DOMAIN table

\* the request's method is OPTIONS or none of GET, POST, PUT, PATCH, DELETE
NoStoreMethod ==
    /\ Handled
    /\ HttpMethod(event) \notin {"GET", "POST", "PUT", "PATCH", "DELETE"}

\* C17 as stated: a request whose method is OPTIONS or is not one of GET,
\* POST, PUT, PATCH, DELETE leaves the store alone; OPTIONS is answered 200
\* and every other such method 405, whatever else the request holds.
C17_NoStoreMethods ==
    NoStoreMethod =>
        /\ table = table_before
        /\ StatusCode = (IF HttpMethod(event) = "OPTIONS" THEN 200 ELSE 405)

\* C17 amended: such a request leaves the store alone; it is answered 400
\* when no table name is resolved for it, and otherwise 200 for OPTIONS and
\* 405 for every other such method.
C17_NoStoreMethodsAfterTableName ==
    NoStoreMethod =>
        /\ table = table_before
        /\ StatusCode =
             (IF ~Truthy(ResolvedTableName(event, environ)) THEN 400
              ELSE IF HttpMethod(event) = "OPTIONS" THEN 200 ELSE 405)

\* an OPTIONS request is answered 200 while the table holds an item
W17_OptionsAnswered ==
    /\ NoStoreMethod
    /\ HttpMethod(event) = "OPTIONS"
    /\ StatusCode = 200
    /\ table_before # EmptyDict

\* a gateway request whose optional sections are each absent, null or empty
BareGatewayRequest ==
    /\ Handled
    /\ IsGateway(event)
    /\ \A k \in {"pathParameters", "queryStringParameters", "body"} :
          k \in DOMAIN event => event[k] \in {NoneValue, EmptyString, EmptyDict}

\* C18: a gateway request whose optional sections are absent, null or empty
\* is normalised with an empty field map for every method and is never
\* answered 500; a POST with an absent or empty body is answered 400.
C18_BareSectionsTolerated ==
    BareGatewayRequest =>
        /\ GatewayBody(event) = EmptyDict
        /\ StatusCode # 500
        /\ HttpMethod(event) = "POST" => StatusCode = 400

\* C19: on a successful stock update the response body reports the previous
\* stock c, the applied delta d and the new stock c + d, for both forms of the
\* payload, and the reported new stock is the stock the update stored.
\* Stated for the updates that keep the stock non-negative.
C19_UpdateReport ==
    (UpdatingExisting /\ HasQuantity /\ StatusCode = 200
       /\ StockBefore >= 0 /\ StockBefore + Delta >= 0) =>
        /\ dict_get(response.body, "previous_stock") = <<StockBefore>>
        /\ dict_get(response.body, "stock_change") = <<Delta>>
        /\ dict_get(response.body, "new_stock") = <<StockBefore + Delta>>
        /\ dict_get(table[Target[1]], "stock_quantity") = <<StockBefore + Delta>>

\* the table with every key but k forgotten
KeyOnly(tbl, k) == [x \in DOMAIN tbl \cap {k} |-> tbl[x]]

\* the get requests, of either shape, for the key of the request just handled
SameKeyGets ==
    { ev \in GetEvents :
        /\ Route(ev, environ) = "get"
        /\ dict_get(Params(ev, environ), "product_id") = Target }

\* C20: get and list requests never change the store, and a second get for
\* the same key, of either shape and at a later time, returns the same body as
\* long as the item of that key is the same, whatever happened to other keys.
C20_ReadsRepeatable ==
    (Handled /\ Branch \in {"get", "list"}) =>
        /\ table = table_before
        /\ Branch = "get" =>
              \A ev \in SameKeyGets :
                \A tbl \in {table, KeyOnly(table, Target[1])} :
                  LET again == lambda_handler(ev, tbl, environ, clock + 1, <<>>)
                  IN /\ again.response.body = response.body
                     /\ again.table = tbl

\* a get of a stored key is answered with the stored item, and a get of the
\* other request shape exists for the same key
W20_GetAnswered ==
    /\ Handled
    /\ Branch = "get"
    /\ StatusCode = 200
    /\ response.body["item"] = table[Target[1]]
    /\ DOMAIN table # {Target[1]}
    /\ \E ev \in SameKeyGets : IsGateway(ev) # IsGateway(event)

\* the price literal in the body of the request, as its text has it
RawPrice == event["body"]["json"]["price"]

\* C21: an item added with price 19.99 and read back through get yields a
\* response whose price is exactly 19.99: the add stores the price of the
\* request's text and answers with it, and a get answers with the stored
\* price; likewise for the other prices of the model.
C21_PriceRoundTrip ==
    /\ \A k \in DOMAIN table :
          "price" \in DOMAIN table[k] => table[k]["price"] \in PriceLiterals
    /\ (Handled /\ Branch = "add" /\ StatusCode = 201) =>
          /\ table[AddedItem["product_id"]]["price"] = RawPrice
          /\ response.body["item"]["price"] = RawPrice
    /\ (Handled /\ Branch = "get" /\ StatusCode = 200
           /\ "price" \in DOMAIN table_before[Target[1]]) =>
          response.body["item"]["price"] = table_before[Target[1]]["price"]

\* an item stored with price 19.99 is read back by a get
W21_ReadBack ==
    /\ Handled
    /\ Branch = "get"
    /\ StatusCode = 200
    /\ table_before[Target[1]]["price"] = Dec(1999, 2)
    /\ response.body["item"]["price"] = Dec(1999, 2)

----------------------------------------------------------------------------
\* Vocabulary of the properties of overlapping invocations

\* worker p's call is a finished op
Finished(p, op) == calls[p].op = op /\ calls[p].pc = "done"

\* the calls of p and q overlapped: each began before the other ended, and
\* both address the same key
Overlapped(p, q) ==
    /\ p # q
    /\ calls[p].key = calls[q].key
    /\ calls[p].at <= calls[q].wclock
    /\ calls[q].at <= calls[p].wclock

\* the stock of the key when worker p's call began, as an option
BaseStock(p) ==
    IF calls[p].base = <<>> THEN <<>>
    ELSE dict_get(calls[p].base[1], "stock_quantity")

\* p and q ran overlapping successful updates, each with the given field, on
\* a key whose stock was the same when each began
RacingUpdates(p, q, field) ==
    /\ Finished(p, "update") /\ Finished(q, "update")
    /\ Overlapped(p, q)
    /\ calls[p].status = 200 /\ calls[q].status = 200
    /\ Has(calls[p].params, field) /\ Has(calls[q].params, field)
    /\ BaseStock(p) # <<>> /\ BaseStock(p) = BaseStock(q)

StoredStock(k) ==
    IF k \in DOMAIN table THEN dict_get(table[k], "stock_quantity") ELSE <<>>

RacingAdds(p, q) ==
    /\ Finished(p, "add") /\ Finished(q, "add")
    /\ Overlapped(p, q)

\* C23: two concurrent adds for the same absent product_id can both pass the
\* existence check and both return 201, the later put overwriting the
\* earlier; at least one of them returns 201, the other 201 or 409; the
\* store holds one item per product_id, under that key.
C23_BestEffortUniqueness ==
    /\ \A k \in DOMAIN table : table[k]["product_id"] = k
    /\ \A p, q \in Procs :
          RacingAdds(p, q) =>
              /\ {calls[p].status, calls[q].status} \subseteq {201, 409}
              /\ (calls[p].base = <<>> /\ calls[q].base = <<>>) =>
                    201 \in {calls[p].status, calls[q].status}
              /\ (calls[p].status = 201 /\ calls[q].status = 201
                     /\ calls[p].wrote > calls[q].wrote) =>
                    dict_get(table, calls[p].key) = <<calls[p].body["item"]>>

\* both adds have returned 201 with different items, the second put last
W23_BothCreated ==
    /\ RacingAdds(1, 2)
    /\ calls[1].status = 201 /\ calls[2].status = 201
    /\ calls[1].body["item"] # calls[2].body["item"]
    /\ calls[2].wrote > calls[1].wrote
    /\ table[calls[2].key] = calls[2].body["item"]

\* the call found, when it began, an item that a create had written
FoundCreated(p) ==
    /\ calls[p].base # <<>>
    /\ dict_get(calls[p].base[1], "created_at") # <<>>

\* every delete of a created item answered 200 carries the deleted record
DeleteCarriesRecord ==
    \A p \in Procs :
        (Finished(p, "remove") /\ FoundCreated(p) /\ calls[p].status = 200) =>
            dict_get(calls[p].body, "deleted_item") \notin {<<>>, << <<>> >>}

\* of two overlapping deletes of a created item at most one is answered 200
OneDeleteSucceeds ==
    \A p, q \in Procs :
        (/\ Finished(p, "remove") /\ Finished(q, "remove")
         /\ Overlapped(p, q)
         /\ FoundCreated(p) /\ FoundCreated(q)) =>
            ~(calls[p].status = 200 /\ calls[q].status = 200)

\* C24: under any interleaving of concurrent deletes of the same key, every
\* delete that returns 200 carries the deleted record, and for one creation
\* of the item at most one delete returns 200, the others 404.
C24_ConcurrentDeletes ==
    /\ DeleteCarriesRecord
    /\ OneDeleteSucceeds

\* worker q's update of a created item began before worker p's delete of
\* the same key was answered 200; no add has followed the delete, since each
\* worker is still at (or has just finished) the call named here
UpdateRacesDelete(q, p) ==
    /\ p # q
    /\ Finished(p, "remove") /\ calls[p].status = 200
    /\ calls[q].op = "update"
    /\ calls[q].key = calls[p].key
    /\ calls[q].at <= calls[p].wclock
    /\ FoundCreated(q)

\* C27: an update-stock request racing with a delete of the same key never
\* re-creates the item: once the delete has returned 200 and no add has
\* followed, the key is absent from the store, even if an update that
\* started before the delete completes after it.
C27_DeleteNotUndone ==
    \A p, q \in Procs :
        UpdateRacesDelete(q, p) => calls[p].key \notin DOMAIN table

\* the identifier of a gateway event as C25 states it: pathParameters'
\* product_id when they carry one, else the last segment of a path of more
\* than one segment, else none
StatedIdentifier(ev) ==
    LET carried == dict_get(OrEmpty(ev, "pathParameters"), "product_id")
        parts   == PathParts(ev)
    IN IF carried # <<>> THEN carried
       ELSE IF Len(parts) > 1 THEN <<parts[Len(parts)]>>
       ELSE <<>>

\* the response is that of a get of key k on the table before the request
AnsweredGetOf(k) ==
    IF k \in DOMAIN table_before
    THEN /\ StatusCode = 200
         /\ dict_get(response.body, "item") = <<encode_item(table_before[k])>>
    ELSE /\ StatusCode = 404
         /\ dict_get(response.body, "product_id") = <<k>>

\* the response is that of a list
AnsweredList == StatusCode = 200 /\ Has(response.body, "items")

\* a gateway request that reached a handler
GatewayHandled ==
    /\ Handled
    /\ IsGateway(event)
    /\ Branch \in {"get", "list", "update", "remove"}

\* C25: the identifier of a gateway request is pathParameters.product_id when
\* path parameters carry one, otherwise the last segment of a path of more
\* than one segment, otherwise none: a GET with an identifier gets that item,
\* a GET without one lists, and the identifier overrides a product_id of the
\* body.
C25_IdentifierExtraction ==
    GatewayHandled =>
        LET id == StatedIdentifier(event) IN
        /\ (HttpMethod(event) = "GET" /\ id # <<>>) => AnsweredGetOf(id[1])
        /\ (HttpMethod(event) = "GET" /\ id = <<>>) => AnsweredList
        /\ id # <<>> => Target = id

\* a list request has just been handled
ListHandled == Handled /\ Branch = "list"

\* the category filter of the request, as an option
ListCategory ==
    IF Truthy(dict_get(Req, "category")) THEN dict_get(Req, "category") ELSE <<>>

\* the pages one scan of the table before the request can return
ScanPages ==
    { scan(table_before, order, ListCategory, ScanLimit(Req)) :
        order \in ScanOrders(table_before) }

\* the body reports one page: its items, and the continuation exactly when
\* the page carries one
ReportsPage(page) ==
    /\ dict_get(response.body, "items") =
          <<[i \in 1..Len(page["Items"]) |-> encode_item(page["Items"][i])]>>
    /\ dict_get(response.body, "scanned_count") = <<page["ScannedCount"]>>
    /\ Has(response.body, "has_more") <=> Has(page, "LastEvaluatedKey")
    /\ Has(response.body, "last_evaluated_key") <=> Has(page, "LastEvaluatedKey")
    /\ Has(page, "LastEvaluatedKey") =>
          /\ response.body["has_more"] = TRUE
          /\ response.body["last_evaluated_key"] = page["LastEvaluatedKey"]

\* count is the number of items returned
CountsItems ==
    /\ Has(response.body, "items")
    /\ dict_get(response.body, "count") = <<Len(response.body["items"])>>

\* every returned item has the category asked for
OnlyCategory ==
    /\ Has(response.body, "items")
    /\ Has(Req, "category") =>
          \A i \in 1..Len(response.body["items"]) :
              dict_get(response.body["items"][i], "category") = <<Req["category"]>>

\* C26: a list request returns 200 with count equal to the number of items
\* returned; when category is supplied every returned item has that category;
\* has_more = true and last_evaluated_key are present exactly when the store
\* reports truncated results, and the response is that of a single scan.
C26_ListReport ==
    ListHandled =>
        /\ StatusCode = 200
        /\ CountsItems
        /\ OnlyCategory
        /\ \E page \in ScanPages : ReportsPage(page)

============================================================================
